---------------------------- MODULE Spec2Model ----------------------------
(***************************************************************************)
(* A model of manta's clustering engine (src/manta/cluster.py):            *)
(* sparsity_score, cluster_hard, cluster_fuzzy, _core_oscillators,         *)
(* _oscillator_paths, _node_sparsity and the orchestrator cluster_graph.   *)
(*                                                                         *)
(* Conventions.                                                            *)
(*  - Node identifiers are opaque in the program; here they are 1..N and   *)
(*    the index mapping sends node n to matrix position n-1 (adj_index)    *)
(*    and position i to node i+1 (rev_index), so that a confusion of the   *)
(*    two shows.  Assignment vectors are functions on 0..N-1.              *)
(*  - A graph is a weight function on unordered node pairs, written        *)
(*    <<u, v>> with u < v; weight 0 means "no edge".  Edge weights are     *)
(*    nonzero and there are no self-loops.                                 *)
(*  - Real numbers are exact rationals.  A sparsity score is kept as its   *)
(*    numerator over |E| (cut_score = 1/|E|), trajectory values as         *)
(*    numerators over TrajDen, a resonance as <<numerator, denominator>>.  *)
(*  - Python's None is the string "None"; a raised exception sets `raised` *)
(*    to its name and pc to "raised".                                      *)
(***************************************************************************)
EXTENDS Integers, Sequences, FiniteSets, TLC

VARIABLES
    pc,               \* position of the running call
    graph,            \* the weighted graph
    min_clusters, max_clusters, cluster, fuzzy, edgescale,   \* call parameters
    memory,           \* the diffusion collaborator's memory signal
    difmats,          \* the diagonal of the diffusion trajectory
    scores,           \* cluster_hard: list of sparsity scores
    kmeans_runs,      \* the k of every KMeans(k).fit_predict call made so far
    warning,          \* the warning cluster_hard wrote, or "none"
    kmeans_labels,    \* label vector returned by the final k-means run
    bestcluster,      \* the assignment vector (or "None")
    oscillators,      \* _core_oscillators: the candidate list it reports
    core, anti,       \* _core_oscillators: returned set (in iteration order), map
    remove_cluster,   \* _oscillator_paths: flagged index positions
    updated_removals, \* _node_sparsity: confirmed index positions
    revalidated,      \* _node_sparsity applied to its own result
    cluster_attr,     \* the 'cluster' node attribute of the graph (or "None")
    sparsity,         \* result of a stand-alone sparsity_score call
    raised            \* name of the exception that ended the call, or "none"

params == <<min_clusters, max_clusters, cluster, fuzzy, edgescale>>
hardv  == <<scores, kmeans_runs, warning, kmeans_labels>>
oscv   == <<difmats, oscillators, core, anti>>
valv   == <<remove_cluster, updated_removals, revalidated>>
vars   == <<pc, graph, params, memory, hardv, bestcluster, oscv, valv,
            cluster_attr, sparsity, raised>>

---------------------------------------------------------------------------
(* Bounds of the model *)

\* number of nodes of the graphs explored
NumNodes == 4
\* largest cluster count (max_clusters) and largest label explored
MaxK == 2
\* number of matrices in a diffusion trajectory
TrajLen == 2

Nodes == 1 .. NumNodes
Index == 0 .. (NumNodes - 1)

\* cluster_graph lines 55-58: adj_index[list(graph.nodes)[i]] = i and its inverse
adj_index == [n \in Nodes |-> n - 1]
rev_index == [i \in Index |-> i + 1]

---------------------------------------------------------------------------
(* Generic helpers *)

RECURSIVE SumFn(_, _)
SumFn(f, S) ==
    IF S = {} THEN 0
    ELSE LET x == CHOOSE y \in S : TRUE IN f[x] + SumFn(f, S \ {x})

Range(f) == {f[x] : x \in DOMAIN f}

Max(S) == CHOOSE x \in S : \A y \in S : y <= x
Min(S) == CHOOSE x \in S : \A y \in S : x <= y

\* all orderings (sequences without repetition) of the finite set S
Orderings(S) ==
    {s \in [1 .. Cardinality(S) -> S] : \A i, j \in DOMAIN s : i # j => s[i] # s[j]}

\* position of x in the sequence s
Pos(s, x) == CHOOSE i \in DOMAIN s : s[i] = x

---------------------------------------------------------------------------
(* The graph ADT (networkx) *)

\* The node pairs that may carry an edge: the ring 1-2-...-N-1 and the chord 1-3.
\* With three nodes this is every pair.
Pairs ==
    {p \in Nodes \X Nodes :
        /\ p[1] < p[2]
        /\ \/ p[2] = p[1] + 1
           \/ (p[1] = 1 /\ p[2] = NumNodes)
           \/ (p[1] = 1 /\ p[2] = 3)}

\* edge weights explored
Weights == {-1, 1, 2}
SignWeights == {-1, 1}

Graphs(ws) == [Pairs -> ws \cup {0}]

\* graph.edges: every edge once, as (u, v) with u before v in the graph's node
\* order, which is the index order (line 57 builds adj_index from it)
Edges(W) == {p \in Pairs : W[p] # 0}

\* graph[u][v]['weight'] / weights[(u, v)]: the same in both directions
Wt(W, u, v) == IF u < v THEN W[<<u, v>>] ELSE W[<<v, u>>]

Adjacent(W, u, v) == u # v /\ (IF u < v THEN <<u, v>> ELSE <<v, u>>) \in Pairs /\ Wt(W, u, v) # 0

\* graph.subgraph(node_ids).edges: the edges with both ends in node_ids.  The
\* view reports an edge from the end it iterates first, which need not be the
\* end graph.edges starts from (the comment on line 128): the edges in
\* `flipped` come out as (v, u)
SubgraphEdges(W, node_ids, flipped) ==
    {IF p \in flipped THEN <<p[2], p[1]>> ELSE p :
        p \in {q \in Edges(W) : q[1] \in node_ids /\ q[2] \in node_ids}}

---------------------------------------------------------------------------
(* sparsity_score, lines 84-136.  The value returned is the score's        *)
(* numerator: the program adds and subtracts cut_score = 1/|E|.            *)

\* lines 113-114: the nodes carrying cluster_id
ClusterNodes(clusters, cluster_id) ==
    {rev_index[i] : i \in {j \in DOMAIN clusters : clusters[j] = cluster_id}}

\* lines 118-123: the contribution of one cluster's induced subgraph
InsideScore(W, node_ids, flipped) ==
    LET sub == SubgraphEdges(W, node_ids, flipped)
    IN  SumFn([x \in sub |-> IF Wt(W, x[1], x[2]) < 0 THEN -1 ELSE 1], sub)

\* CutEdges without the swapped-order test of line 127
CutEdgesOneOrder(W, edges) ==
    {e \in Edges(W) : e \notin edges}

\* lines 124-129: the edges found in no cluster's subgraph, in either order
CutEdges(W, edges) ==
    {e \in Edges(W) : e \notin edges /\ <<e[2], e[1]>> \notin edges}

\* lines 130-135
CutScore(W, cuts) ==
    SumFn([e \in cuts |-> IF Wt(W, e[1], e[2]) > 0 THEN -1 ELSE 1], cuts)

sparsity_score(W, clusters, flipped) ==
    LET ids   == Range(clusters)
        edges == UNION {SubgraphEdges(W, ClusterNodes(clusters, c), flipped) : c \in ids}
    IN  SumFn([c \in ids |-> InsideScore(W, ClusterNodes(clusters, c), flipped)], ids)
          + CutScore(W, CutEdges(W, edges))

\* line 108: 1/len(graph.edges) raises ZeroDivisionError on a graph without edges
NumEdges(W) == Cardinality(Edges(W))

\* a call whose subgraph views report every edge as graph.edges does
Score(W, clusters) == sparsity_score(W, clusters, {})

\* the edges some cluster's subgraph view reports
ViewedEdges(W, clusters) ==
    UNION {SubgraphEdges(W, ClusterNodes(clusters, c), {}) : c \in Range(clusters)}

Labels == 1 .. MaxK
Assignments == [Index -> Labels]

\* one assignment per partition of the nodes: labels in order of first use
RECURSIVE FirstUse(_, _)
FirstUse(a, i) ==
    IF i = 0 THEN a[0] = 1
    ELSE FirstUse(a, i - 1) /\ a[i] <= 1 + Max({a[j] : j \in 0 .. (i - 1)})
PartitionAssignments == {a \in Assignments : FirstUse(a, NumNodes - 1)}

\* the graphs without the chord
RingGraphs(ws) == {W \in Graphs(ws) : \A p \in Pairs : p[2] > p[1] + 1 /\ p[2] < NumNodes => W[p] = 0}

---------------------------------------------------------------------------
(* _node_sparsity, lines 392-407.  `removals` and the result are lists of  *)
(* index positions; `node` is an index position.                           *)

\* line 405: the 0.3 of "default_sparsity - 0.3" is SparsityDeltaNum / SparsityDeltaDen
SparsityDeltaNum == 3
SparsityDeltaDen == 10

\* list.remove(x): the list without the first occurrence of x
RECURSIVE Remove(_, _)
Remove(list, x) ==
    IF list = <<>> THEN <<>>
    ELSE IF Head(list) = x THEN Tail(list)
    ELSE <<Head(list)>> \o Remove(Tail(list), x)

\* list(set(...)) of small non-negative integers: the elements in increasing order
RECURSIVE ListOfSet(_)
ListOfSet(S) == IF S = {} THEN <<>> ELSE <<Min(S)>> \o ListOfSet(S \ {Min(S)})

\* lines 394, 397-399
OtherIds(assignment, node) == Range(assignment) \ {assignment[node]}

\* lines 402-403
UpdatedAssignment(assignment, node, id) == [assignment EXCEPT ![node] = id]

\* lines 400-404: the values collected in other_sparsities
OtherSparsities(W, assignment, node) ==
    {Score(W, UpdatedAssignment(assignment, node, id)) : id \in OtherIds(assignment, node)}

\* line 405, both sides multiplied by |E| * SparsityDeltaDen
BelowThreshold(W, other_sparsities, default_sparsity) ==
    SparsityDeltaDen * Max(other_sparsities)
        < SparsityDeltaDen * default_sparsity - SparsityDeltaNum * NumEdges(W)

\* the trials written to the caller's vector instead of a copy
AfterTrialsInPlace(assignment, node, ids) ==
    IF ids = {} THEN assignment ELSE [assignment EXCEPT ![node] = Max(ids)]

\* line 402: every trial writes to a deep copy, so after a node's trials the
\* caller's vector is what it was
AfterTrials(assignment, node, ids) == assignment

\* lines 396-406: the loop over the flagged nodes; np.max of an empty list
\* raises ValueError
RECURSIVE NodeSparsityLoop(_, _, _, _, _)
NodeSparsityLoop(W, todo, assignment, updated, default_sparsity) ==
    IF todo = <<>>
    THEN [raised |-> "none", updated |-> updated, assignment |-> assignment]
    ELSE LET node  == Head(todo)
             other == OtherSparsities(W, assignment, node)
         IN  IF other = {}
             THEN [raised |-> "ValueError", updated |-> updated, assignment |-> assignment]
             ELSE NodeSparsityLoop(W, Tail(todo),
                      AfterTrials(assignment, node, OtherIds(assignment, node)),
                      IF BelowThreshold(W, other, default_sparsity)
                      THEN Remove(updated, node) ELSE updated,
                      default_sparsity)

\* lines 392-407; line 393 divides by |E|
node_sparsity(W, removals, assignment) ==
    IF NumEdges(W) = 0
    THEN [raised |-> "ZeroDivisionError", updated |-> removals, assignment |-> assignment]
    ELSE NodeSparsityLoop(W, removals, assignment, removals, Score(W, assignment))

---------------------------------------------------------------------------
(* _core_oscillators, lines 233-303.  difmats[t][i] is difmats[t, i, i],   *)
(* the only entries the function reads, as a numerator over TrajDen.       *)

\* line 249: the amplitude threshold 0.5 is OscThreshNum / OscThreshDen
OscThreshNum == 1
OscThreshDen == 2

\* trajectory values are counted in halves
TrajDen == OscThreshDen

\* line 247
SeriesAt(dm, index) == [t \in DOMAIN dm |-> dm[t][index]]

\* lines 248 and 269: np.max(seq) - np.min(seq)
Amplitude(seq) == Max(Range(seq)) - Min(Range(seq))

\* the candidate test with >= for >
IsOscillatorOrEqual(ampli) == ampli * OscThreshDen >= OscThreshNum * TrajDen

\* line 249
IsOscillator(ampli) == ampli * OscThreshDen > OscThreshNum * TrajDen

\* lines 243-255: the candidate oscillators, as node identifiers in index order
Oscillators(dm, assignment) ==
    LET idx == ListOfSet({index \in DOMAIN assignment :
                             IsOscillator(Amplitude(SeriesAt(dm, index)))})
    IN  [k \in DOMAIN idx |-> rev_index[idx[k]]]

\* itertools.combinations(list, 2), in its order
RECURSIVE Combinations2(_)
Combinations2(list) ==
    IF Len(list) < 2 THEN <<>>
    ELSE [k \in 1 .. (Len(list) - 1) |-> <<list[1], list[k + 1]>>] \o Combinations2(Tail(list))

\* lines 259-261
ClusDict(nodes, assignment) == [x \in nodes |-> assignment[adj_index[x]]]

\* lines 264-269: amplis, keyed by the pairs of Combinations2(oscillators)
Amplis(dm, oscs) ==
    LET keys == Combinations2(oscs)
    IN  [key \in {keys[k] : k \in DOMAIN keys} |->
            LET s1 == SeriesAt(dm, adj_index[key[1]])
                s2 == SeriesAt(dm, adj_index[key[2]])
            IN  Amplitude([t \in DOMAIN dm |-> s1[t] - s2[t]])]

\* lines 273-281: the largest anti-correlation per cluster, pairs taken in
\* insertion order, a later pair replacing an earlier one only when larger
RECURSIVE ClusterPairs(_, _, _, _)
ClusterPairs(keys, amplis, clusdict, st) ==
    IF keys = <<>> THEN st
    ELSE LET corr == Head(keys)
             cluster1 == clusdict[corr[1]]
             cluster2 == clusdict[corr[2]]
             st1 == IF amplis[corr] > st.clus_corrs[cluster1]
                    THEN [clus_nodes |-> [st.clus_nodes EXCEPT ![cluster1] = corr],
                          clus_corrs |-> [st.clus_corrs EXCEPT ![cluster1] = amplis[corr]]]
                    ELSE st
             st2 == IF amplis[corr] > st1.clus_corrs[cluster2]
                    THEN [clus_nodes |-> [st1.clus_nodes EXCEPT ![cluster2] = corr],
                          clus_corrs |-> [st1.clus_corrs EXCEPT ![cluster2] = amplis[corr]]]
                    ELSE st1
         IN  ClusterPairs(Tail(keys), amplis, clusdict, st2)

\* lines 271-282: clus_nodes without its None entries
ClusNodes(dm, assignment) ==
    LET oscs == Oscillators(dm, assignment)
        st   == ClusterPairs(Combinations2(oscs), Amplis(dm, oscs),
                    ClusDict(Range(oscs), assignment),
                    [clus_nodes |-> [c \in Range(assignment) |-> "None"],
                     clus_corrs |-> [c \in Range(assignment) |-> 0]])
    IN  [c \in {d \in Range(assignment) : st.clus_nodes[d] # "None"} |-> st.clus_nodes[c]]

\* the candidate list returned in place of the members of the retained pairs
CoreOscillatorSetOrCandidates(dm, assignment) ==
    Range(Oscillators(dm, assignment))

\* line 284: the members of the retained pairs
CoreOscillatorSet(dm, assignment) ==
    LET cn == ClusNodes(dm, assignment)
    IN  UNION {{cn[c][1], cn[c][2]} : c \in DOMAIN cn}

\* lines 285-297: each core oscillator's strongest partner; `pairs` is
\* combinations(core_oscillators, 2) in the set's iteration order
RECURSIVE StrongestPartners(_, _, _)
StrongestPartners(pairs, amplis, st) ==
    IF pairs = <<>> THEN st
    ELSE LET nodes == Head(pairs)
             size  == IF nodes \in DOMAIN amplis THEN amplis[nodes]
                      ELSE amplis[<<nodes[2], nodes[1]>>]
             st1 == IF size > st.anti_sizes[nodes[1]]
                    THEN [id_corrs   |-> [st.id_corrs EXCEPT ![nodes[1]] = nodes[2]],
                          anti_sizes |-> [st.anti_sizes EXCEPT ![nodes[1]] = size]]
                    ELSE st
             st2 == IF size > st1.anti_sizes[nodes[2]]
                    THEN [id_corrs   |-> [st1.id_corrs EXCEPT ![nodes[2]] = nodes[1]],
                          anti_sizes |-> [st1.anti_sizes EXCEPT ![nodes[2]] = size]]
                    ELSE st1
         IN  StrongestPartners(Tail(pairs), amplis, st2)

\* lines 299-301: anti_corrs, a later core oscillator of the same cluster
\* overwriting an earlier one; id_corrs[core] = 0 is no key of clusdict
RECURSIVE AntiCorrs(_, _, _, _)
AntiCorrs(todo, clusdict, id_corrs, acc) ==
    IF todo = <<>> THEN [raised |-> "none", anti_corrs |-> acc]
    ELSE IF id_corrs[Head(todo)] \notin DOMAIN clusdict
    THEN [raised |-> "KeyError", anti_corrs |-> acc]
    ELSE LET key == clusdict[Head(todo)]
             val == clusdict[id_corrs[Head(todo)]]
         IN  AntiCorrs(Tail(todo), clusdict, id_corrs,
                 [c \in DOMAIN acc \cup {key} |-> IF c = key THEN val ELSE acc[c]])

\* lines 233-303.  `order` is the order in which Python iterates the set
\* core_oscillators (an ordering of CoreOscillatorSet), which the language
\* does not fix.
core_oscillators(dm, assignment, order) ==
    LET oscs     == Oscillators(dm, assignment)
        coreset  == Range(order)
        partners == StrongestPartners(Combinations2(order), Amplis(dm, oscs),
                        [id_corrs |-> [x \in coreset |-> 0],
                         anti_sizes |-> [x \in coreset |-> 0]])
        built    == AntiCorrs(order, ClusDict(coreset, assignment), partners.id_corrs, <<>>)
    IN  [oscillators |-> oscs,
         core        |-> order,
         anti        |-> built.anti_corrs,
         raised      |-> built.raised]

---------------------------------------------------------------------------
(* _oscillator_paths, lines 306-390.  A resonance (an entry of corrdict)   *)
(* is a rational <<numerator, denominator>> with a positive denominator.   *)

RECURSIVE Pow(_, _)
Pow(b, e) == IF e = 0 THEN 1 ELSE b * Pow(b, e - 1)

Abs(x) == IF x < 0 THEN -x ELSE x

\* np.sign
Sign(x) == IF x < 0 THEN -1 ELSE IF x > 0 THEN 1 ELSE 0

\* line 323: max(weights.values())
MaxWeight(W) == Max({W[p] : p \in Edges(W)})

\* nx.all_shortest_paths(graph, source, target): every path with the least
\* number of edges, found breadth first; the empty set stands for
\* NetworkXNoPath
ExtendPaths(W, paths) ==
    {Append(path, v) : <<path, v>> \in
        {pv \in paths \X Nodes :
            /\ Adjacent(W, pv[1][Len(pv[1])], pv[2])
            /\ \A i \in DOMAIN pv[1] : pv[1][i] # pv[2]}}

RECURSIVE PathsReaching(_, _, _)
PathsReaching(W, paths, target) ==
    IF paths = {} THEN {}
    ELSE LET hits == {path \in paths : path[Len(path)] = target}
         IN  IF hits # {} THEN hits ELSE PathsReaching(W, ExtendPaths(W, paths), target)

AllShortestPaths(W, source, target) == PathsReaching(W, {<<source>>}, target)

\* lines 339-341, numerator: the product of the edge weights along the path
\* (each is divided by max_weight on line 324)
RECURSIVE EdgeWeight(_, _)
EdgeWeight(W, path) ==
    IF Len(path) < 2 THEN 1
    ELSE Wt(W, path[1], path[2]) * EdgeWeight(W, Tail(path))

\* line 347
NoPathWeight == <<-1, 1>>

\* lines 335-348: total_weight for one oscillator and one target
TotalWeight(W, node, target) ==
    LET shortest_paths == AllShortestPaths(W, node, target)
    IN  IF shortest_paths = {} THEN NoPathWeight
        ELSE LET num == SumFn([path \in shortest_paths |-> EdgeWeight(W, path)],
                              shortest_paths)
                 hops == Len(CHOOSE path \in shortest_paths : TRUE) - 1
                 den == Pow(MaxWeight(W), hops) * Cardinality(shortest_paths)
             IN  <<num * Sign(den), Abs(den)>>

\* lines 321, 331-348
CorrDict(W, core_set) ==
    [node \in core_set |-> [target \in Nodes |-> TotalWeight(W, node, target)]]

\* lines 353-356: clusdict after its inversion, cluster -> oscillator; of two
\* core oscillators of one cluster the one iterated last stays
RECURSIVE OscillatorOf(_, _, _)
OscillatorOf(core_list, assignment, acc) ==
    IF core_list = <<>> THEN acc
    ELSE LET key == assignment[adj_index[Head(core_list)]]
         IN  OscillatorOf(Tail(core_list), assignment,
                 [c \in DOMAIN acc \cup {key} |-> IF c = key THEN Head(core_list) ELSE acc[c]])

\* lines 359-368: target is appended to clus_matches (a KeyError skips both tests)
InClusMatches(corrdict, clusdict, anti_corrs, assignment, target) ==
    LET clus_id == assignment[adj_index[target]]
    IN  /\ clus_id \in DOMAIN anti_corrs
        /\ clus_id \in DOMAIN clusdict
        /\ anti_corrs[clus_id] \in DOMAIN clusdict
        /\ LET own   == corrdict[clusdict[clus_id]][target]
               other == corrdict[clusdict[anti_corrs[clus_id]]][target]
           IN  Sign(own[1]) = Sign(other[1]) \/ Sign(other[1]) = 0

\* lines 373-376: target is appended to clus_assign
InClusAssign(corrdict, clusdict, assignment, target) ==
    LET clus_id == assignment[adj_index[target]]
    IN  /\ clus_id \in DOMAIN clusdict
        /\ Sign(corrdict[clusdict[clus_id]][target][1]) = -1

\* the small-weight test with <= for <
InVarWeightsClosed(corrdict, clusdict, assignment, es, target) ==
    LET clus_id == assignment[adj_index[target]]
    IN  /\ clus_id \in DOMAIN clusdict
        /\ LET weight == corrdict[clusdict[clus_id]][target]
           IN  /\ -es[1] * weight[2] <= weight[1] * es[2]
               /\ weight[1] * es[2] <= es[1] * weight[2]

\* lines 373-378: target is appended to varweights; es is edgescale as
\* <<numerator, denominator>>
InVarWeights(corrdict, clusdict, assignment, es, target) ==
    LET clus_id == assignment[adj_index[target]]
    IN  /\ clus_id \in DOMAIN clusdict
        /\ LET weight == corrdict[clusdict[clus_id]][target]
           IN  /\ -es[1] * weight[2] < weight[1] * es[2]
               /\ weight[1] * es[2] < es[1] * weight[2]

\* lines 306-390; line 323 raises ValueError on a graph without edges
oscillator_paths(W, core_list, anti_corrs, assignment, es) ==
    IF NumEdges(W) = 0 THEN [raised |-> "ValueError", remove_cluster |-> <<>>]
    ELSE LET corrdict == CorrDict(W, Range(core_list))
             clusdict == OscillatorOf(core_list, assignment, <<>>)
             flagged  == {x \in Nodes :
                            \/ InClusAssign(corrdict, clusdict, assignment, x)
                            \/ InVarWeights(corrdict, clusdict, assignment, es, x)
                            \/ InClusMatches(corrdict, clusdict, anti_corrs, assignment, x)}
         IN  [raised |-> "none",
              remove_cluster |-> ListOfSet({adj_index[x] : x \in flagged})]

---------------------------------------------------------------------------
(* cluster_hard, lines 139-180, and the k-means primitive                  *)

\* KMeans(k).fit_predict(scoremat): some label vector with labels in 0..k-1;
\* the score matrix is read by nothing else and is left out
KMeansLabels(k) == [Index -> 0 .. (k - 1)]

\* line 151: np.random.randint(2, size=len(scoremat))
RandomClusts == [Index -> 0 .. 1]

\* every name passes for the supported one
AnyAlgorithm(name) == TRUE

\* line 157
IsKMeans(name) == name = "KMeans"

\* np.argmax: the first position (from 0) of the largest score
ArgMax(list) == Min({i \in DOMAIN list : list[i] = Max(Range(list))}) - 1

\* line 164
TopScore(list, kmin) == ArgMax(list) + kmin - 1

\* the labels returned as k-means gave them
UnshiftedLabels(labels) == labels

\* line 178: bestcluster + 1
ShiftLabels(labels) == [i \in DOMAIN labels |-> labels[i] + 1]


---------------------------------------------------------------------------
(* Stand-alone call of sparsity_score *)

\* the state of the stages that have not run
HardIdle == scores = <<>> /\ kmeans_runs = <<>> /\ warning = "none" /\ kmeans_labels = "None"
OscIdle  == oscillators = "None" /\ core = "None" /\ anti = "None"
ValIdle  == updated_removals = "None" /\ revalidated = "None"
OutIdle  == cluster_attr = "None" /\ sparsity = "None" /\ raised = "none"
Idle ==
    /\ memory = FALSE /\ difmats = "None" /\ remove_cluster = "None"
    /\ HardIdle /\ OscIdle /\ ValIdle /\ OutIdle

NoParams ==
    /\ min_clusters = 1 /\ max_clusters = 1 /\ cluster = "KMeans"
    /\ fuzzy = TRUE /\ edgescale = <<1, 1>>

InitScore ==
    /\ pc = "score"
    /\ graph \in Graphs(SignWeights)
    /\ bestcluster \in Assignments
    /\ NoParams /\ Idle

CallSparsityScore ==
    /\ pc = "score"
    /\ IF NumEdges(graph) = 0
       THEN /\ pc' = "raised" /\ raised' = "ZeroDivisionError"
            /\ UNCHANGED sparsity
       ELSE /\ \E flipped \in SUBSET ViewedEdges(graph, bestcluster) :
                   sparsity' = sparsity_score(graph, bestcluster, flipped)
            /\ pc' = "scored"
            /\ UNCHANGED raised
    /\ UNCHANGED <<graph, params, memory, hardv, bestcluster, oscv, valv, cluster_attr>>

SpecScore == InitScore /\ [][CallSparsityScore]_vars

---------------------------------------------------------------------------
(* Stand-alone calls of _node_sparsity: on a flagged list, then on its own *)
(* result (same graph, same assignment).                                   *)

InitValidate ==
    /\ pc = "validate"
    /\ graph \in RingGraphs(SignWeights)
    /\ bestcluster \in Assignments
    /\ remove_cluster \in {ListOfSet(S) : S \in SUBSET Index}
    /\ NoParams /\ memory = FALSE /\ difmats = "None"
    /\ HardIdle /\ OscIdle /\ ValIdle /\ OutIdle

CallNodeSparsity ==
    /\ pc = "validate"
    /\ LET r == node_sparsity(graph, remove_cluster, bestcluster)
       IN  /\ bestcluster' = r.assignment
           /\ IF r.raised = "none"
              THEN /\ updated_removals' = r.updated
                   /\ pc' = "validated"
                   /\ UNCHANGED raised
              ELSE /\ raised' = r.raised
                   /\ pc' = "raised"
                   /\ UNCHANGED updated_removals
    /\ UNCHANGED <<graph, params, memory, hardv, oscv, remove_cluster, revalidated,
                   cluster_attr, sparsity>>

CallNodeSparsityAgain ==
    /\ pc = "validated"
    /\ LET r == node_sparsity(graph, updated_removals, bestcluster)
       IN  /\ bestcluster' = r.assignment
           /\ IF r.raised = "none"
              THEN /\ revalidated' = r.updated
                   /\ pc' = "revalidated"
                   /\ UNCHANGED raised
              ELSE /\ raised' = r.raised
                   /\ pc' = "raised"
                   /\ UNCHANGED revalidated
    /\ UNCHANGED <<graph, params, memory, hardv, oscv, remove_cluster, updated_removals,
                   cluster_attr, sparsity>>

NextValidate == CallNodeSparsity \/ CallNodeSparsityAgain

SpecValidate == InitValidate /\ [][NextValidate]_vars

---------------------------------------------------------------------------
(* Stand-alone call of _core_oscillators *)

\* the values a node's diagonal entry alternates between in a flip-flop
\* trajectory, in halves: flat, amplitude 0.5 (the threshold itself),
\* amplitude 2 in either phase, amplitude 1
FlipFlops == {<<0, 0>>, <<0, 1>>, <<-2, 2>>, <<2, -2>>, <<0, 2>>}

TrajectoriesOf(shapes) ==
    {[t \in 1 .. TrajLen |-> [i \in Index |-> IF t % 2 = 1 THEN sh[i][1] ELSE sh[i][2]]] :
        sh \in [Index -> shapes]}

Trajectories == TrajectoriesOf(FlipFlops)

InitOsc ==
    /\ pc = "detect"
    /\ graph = [p \in Pairs |-> 0]
    /\ bestcluster \in Assignments
    /\ difmats \in Trajectories
    /\ NoParams /\ memory = TRUE /\ remove_cluster = "None"
    /\ HardIdle /\ OscIdle /\ ValIdle /\ OutIdle

CallCoreOscillators ==
    /\ pc = "detect"
    /\ \E order \in Orderings(CoreOscillatorSet(difmats, bestcluster)) :
          LET r == core_oscillators(difmats, bestcluster, order)
          IN  /\ oscillators' = r.oscillators
              /\ IF r.raised = "none"
                 THEN /\ core' = r.core /\ anti' = r.anti
                      /\ pc' = "detected"
                      /\ UNCHANGED raised
                 ELSE /\ raised' = r.raised
                      /\ pc' = "raised"
                      /\ UNCHANGED <<core, anti>>
    /\ UNCHANGED <<graph, params, memory, hardv, bestcluster, difmats, valv,
                   cluster_attr, sparsity>>

SpecOsc == InitOsc /\ [][CallCoreOscillators]_vars

---------------------------------------------------------------------------
(* Stand-alone call of _oscillator_paths, on what _core_oscillators can    *)
(* return for the assignment                                               *)

DetectorOutputs(assignment) ==
    UNION {{<<r.core, r.anti>> :
              r \in {core_oscillators(dm, assignment, order) :
                        order \in Orderings(CoreOscillatorSet(dm, assignment))}} :
           dm \in Trajectories}

\* values of edgescale explored
Edgescales == {<<1, 2>>, <<1, 1>>}

InitPaths ==
    /\ pc = "scan"
    /\ bestcluster \in PartitionAssignments
    /\ \E out \in DetectorOutputs(bestcluster) : core = out[1] /\ anti = out[2]
    /\ edgescale \in Edgescales
    /\ graph \in RingGraphs(Weights)
    /\ min_clusters = 1 /\ max_clusters = 1 /\ cluster = "KMeans" /\ fuzzy = TRUE
    /\ memory = TRUE /\ difmats = "None" /\ oscillators = "None"
    /\ remove_cluster = "None"
    /\ HardIdle /\ ValIdle /\ OutIdle

CallOscillatorPaths ==
    /\ pc = "scan"
    /\ LET r == oscillator_paths(graph, core, anti, bestcluster, edgescale)
       IN  IF r.raised = "none"
           THEN /\ remove_cluster' = r.remove_cluster
                /\ pc' = "scanned"
                /\ UNCHANGED raised
           ELSE /\ raised' = r.raised
                /\ pc' = "raised"
                /\ UNCHANGED remove_cluster
    /\ UNCHANGED <<graph, params, memory, hardv, bestcluster, oscv, updated_removals,
                   revalidated, cluster_attr, sparsity>>

SpecPaths == InitPaths /\ [][CallOscillatorPaths]_vars

---------------------------------------------------------------------------
(* cluster_graph, lines 31-81: the whole run.  The diffusion collaborator  *)
(* is reduced to its memory signal; the trajectory it returns is read by   *)
(* _core_oscillators alone and is drawn there.                             *)

IsNone(v) == v \in STRING

\* the graphs of the whole-run specification: the ring with every edge
\* present and at most one of them negative, or all of them negative, and
\* the graph without edges
PipelineGraphs ==
    {W \in RingGraphs(SignWeights) :
        \/ NumEdges(W) = 0
        \/ /\ NumEdges(W) = NumNodes
           /\ \/ \A e \in Edges(W) : W[e] < 0
              \/ (W[<<1, 2>>] > 0 /\ \A e \in Edges(W) \ {<<2, 3>>} : W[e] > 0)}

\* the trajectories of the whole-run specification: every node is still or
\* swings with full amplitude, in one of the two phases
PipelineTrajectories == TrajectoriesOf({<<0, 0>>, <<-2, 2>>, <<2, -2>>})

Init ==
    /\ pc = "start"
    /\ graph \in PipelineGraphs
    /\ min_clusters \in 1 .. MaxK
    /\ max_clusters \in min_clusters .. MaxK
    /\ cluster \in {"KMeans", "DBSCAN"}
    /\ fuzzy \in BOOLEAN
    /\ edgescale \in Edgescales
    /\ bestcluster = "None"
    /\ Idle

\* lines 63-65
Diffusion ==
    /\ pc = "start"
    /\ memory' \in BOOLEAN
    /\ pc' = "hard"
    /\ UNCHANGED <<graph, params, hardv, bestcluster, oscv, valv, cluster_attr,
                   sparsity, raised>>

\* lines 151-157
HardBaseline ==
    /\ pc = "hard"
    /\ IF NumEdges(graph) = 0
       THEN /\ raised' = "ZeroDivisionError" /\ pc' = "raised"
            /\ UNCHANGED scores
       ELSE /\ \E randomclust \in RandomClusts :
                   scores' = <<Score(graph, randomclust)>>
            /\ pc' = IF IsKMeans(cluster) THEN "sweep" ELSE "unsupported"
            /\ UNCHANGED raised
    /\ UNCHANGED <<graph, params, memory, kmeans_runs, warning, kmeans_labels,
                   bestcluster, oscv, valv, cluster_attr, sparsity>>

\* lines 158-163: one turn of the loop, for i = min_clusters + len(scores) - 1
HardCandidate ==
    /\ pc = "sweep"
    /\ Len(scores) <= max_clusters - min_clusters + 1
    /\ LET i == min_clusters + Len(scores) - 1
       IN  /\ kmeans_runs' = Append(kmeans_runs, i)
           /\ \E clusters \in KMeansLabels(i) :
                  scores' = Append(scores, Score(graph, clusters))
    /\ UNCHANGED <<pc, graph, params, memory, warning, kmeans_labels, bestcluster,
                   oscv, valv, cluster_attr, sparsity, raised>>

\* lines 164-172 and 178; KMeans(k) with k < 1 raises ValueError
HardFinal ==
    /\ pc = "sweep"
    /\ Len(scores) = max_clusters - min_clusters + 2
    /\ LET topscore == TopScore(scores, min_clusters)
       IN  /\ warning' = IF topscore >= min_clusters THEN "none" ELSE "random_best"
           /\ kmeans_runs' = Append(kmeans_runs, topscore)
           /\ IF topscore < 1
              THEN /\ raised' = "ValueError" /\ pc' = "raised"
                   /\ UNCHANGED <<kmeans_labels, bestcluster>>
              ELSE /\ kmeans_labels' \in KMeansLabels(topscore)
                   /\ bestcluster' = ShiftLabels(kmeans_labels')
                   /\ pc' = "hard_done"
                   /\ UNCHANGED raised
    /\ UNCHANGED <<graph, params, memory, scores, oscv, valv, cluster_attr, sparsity>>

\* lines 173-178: bestcluster is None, and None + 1 raises TypeError
HardUnsupported ==
    /\ pc = "unsupported"
    /\ warning' = "unsupported"
    /\ raised' = "TypeError"
    /\ pc' = "raised"
    /\ UNCHANGED <<graph, params, memory, scores, kmeans_runs, kmeans_labels,
                   bestcluster, oscv, valv, cluster_attr, sparsity>>

\* line 180, back in cluster_graph (line 71) or cluster_fuzzy (line 207)
HardReturn ==
    /\ pc = "hard_done"
    /\ scores' = <<>>
    /\ pc' = IF memory THEN "fuzzy_detect" ELSE "write"
    /\ UNCHANGED <<graph, params, memory, kmeans_runs, warning, kmeans_labels,
                   bestcluster, oscv, valv, cluster_attr, sparsity, raised>>

\* lines 214-218
FuzzyDetect ==
    /\ pc = "fuzzy_detect"
    /\ \E dm \in PipelineTrajectories :
          \E order \in Orderings(CoreOscillatorSet(dm, bestcluster)) :
              LET r == core_oscillators(dm, bestcluster, order)
              IN  /\ oscillators' = r.oscillators
                  /\ IF r.raised = "none"
                     THEN /\ core' = r.core /\ anti' = r.anti
                          /\ pc' = IF fuzzy THEN "fuzzy_scan" ELSE "write"
                          /\ UNCHANGED raised
                     ELSE /\ raised' = r.raised /\ pc' = "raised"
                          /\ UNCHANGED <<core, anti>>
    /\ UNCHANGED <<graph, params, memory, hardv, bestcluster, difmats, valv,
                   cluster_attr, sparsity>>

\* lines 222-224
FuzzyScan ==
    /\ pc = "fuzzy_scan"
    /\ LET r == oscillator_paths(graph, core, anti, bestcluster, edgescale)
       IN  IF r.raised = "none"
           THEN /\ remove_cluster' = r.remove_cluster
                /\ pc' = "fuzzy_validate"
                /\ UNCHANGED raised
           ELSE /\ raised' = r.raised /\ pc' = "raised"
                /\ UNCHANGED remove_cluster
    /\ UNCHANGED <<graph, params, memory, hardv, bestcluster, oscv, updated_removals,
                   revalidated, cluster_attr, sparsity>>

\* lines 225-230
FuzzyValidate ==
    /\ pc = "fuzzy_validate"
    /\ LET r == node_sparsity(graph, remove_cluster, bestcluster)
       IN  IF r.raised = "none"
           THEN /\ updated_removals' = r.updated
                /\ bestcluster' = [i \in DOMAIN r.assignment |->
                                      IF i \in {r.updated[k] : k \in DOMAIN r.updated}
                                      THEN 0 ELSE r.assignment[i]]
                /\ pc' = "write"
                /\ UNCHANGED raised
           ELSE /\ raised' = r.raised /\ pc' = "raised"
                /\ bestcluster' = r.assignment
                /\ UNCHANGED updated_removals
    /\ UNCHANGED <<graph, params, memory, hardv, oscv, remove_cluster, revalidated,
                   cluster_attr, sparsity>>

\* lines 77-81: float(bestcluster[i]) is bestcluster[i] itself, the labels
\* being small integers
WriteLabels ==
    /\ pc = "write"
    /\ cluster_attr' = [n \in {rev_index[i] : i \in DOMAIN bestcluster} |->
                            bestcluster[adj_index[n]]]
    /\ pc' = "done"
    /\ UNCHANGED <<graph, params, memory, hardv, bestcluster, oscv, valv,
                   sparsity, raised>>

Next ==
    \/ Diffusion
    \/ HardBaseline \/ HardCandidate \/ HardFinal \/ HardUnsupported \/ HardReturn
    \/ FuzzyDetect \/ FuzzyScan \/ FuzzyValidate
    \/ WriteLabels

Spec == Init /\ [][Next]_vars


---------------------------------------------------------------------------
(* Claims *)

SameCluster(clusters, p) == clusters[adj_index[p[1]]] = clusters[adj_index[p[2]]]

CountEdges(W, clusters, same, positive) ==
    Cardinality({p \in Edges(W) :
        /\ SameCluster(clusters, p) = same
        /\ (W[p] > 0) = positive})

\* C1: on a graph with at least one edge, sparsity_score returns
\* (P_in - N_in + N_cut - P_cut) / |E| whatever orientation the subgraph views
\* report the edges in, and so a value in [-1, 1].
C1_SparsityFormula ==
    pc = "scored" =>
        /\ sparsity = CountEdges(graph, bestcluster, TRUE, TRUE)
                        - CountEdges(graph, bestcluster, TRUE, FALSE)
                        + CountEdges(graph, bestcluster, FALSE, FALSE)
                        - CountEdges(graph, bestcluster, FALSE, TRUE)
        /\ -NumEdges(graph) <= sparsity
        /\ sparsity <= NumEdges(graph)

\* a scored graph with edges of both signs inside clusters and across them
C1_Witness ==
    /\ pc = "scored"
    /\ CountEdges(graph, bestcluster, TRUE, TRUE) > 0
    /\ CountEdges(graph, bestcluster, TRUE, FALSE) > 0
    /\ CountEdges(graph, bestcluster, FALSE, FALSE) > 0
    /\ CountEdges(graph, bestcluster, FALSE, TRUE) > 0
    /\ sparsity = 0

Elements(list) == {list[i] : i \in DOMAIN list}

\* the best score reached by moving `node` alone to another label present
BestAlternative(W, assignment, node) == Max(OtherSparsities(W, assignment, node))

\* C3 (as claimed): a flagged node stays in the confirmed list exactly when its
\* best alternative score does not exceed baseline - 0.3.
C3_KeptIffNotAbove ==
    pc = "validated" =>
        \A node \in Elements(remove_cluster) :
            (node \in Elements(updated_removals))
              <=> (SparsityDeltaDen * BestAlternative(graph, bestcluster, node)
                     <= SparsityDeltaDen * Score(graph, bestcluster)
                          - SparsityDeltaNum * NumEdges(graph))

\* C6 (as claimed): on a graph with at least one edge the Removal Validator
\* returns and does not raise, whatever the assignment and the flagged list.
C6_ValidatorReturns ==
    NumEdges(graph) > 0 => ~(pc = "raised" /\ raised = "ValueError")

\* C9: validating the validated list again returns the same list, and a call
\* changes neither the assignment vector nor the list it was given.
C9_Idempotent ==
    /\ [](pc = "revalidated" => revalidated = updated_removals)
    /\ [][/\ bestcluster' = bestcluster
          /\ remove_cluster' = remove_cluster
          /\ (pc = "validated" => updated_removals' = updated_removals)]_vars

\* a second call that had nodes to judge, after a first call that dropped some
C9_Witness ==
    /\ pc = "revalidated"
    /\ revalidated # <<>>
    /\ Len(updated_removals) < Len(remove_cluster)

\* the index positions whose diagonal trajectory has amplitude above 0.5
AboveThreshold(dm) ==
    {i \in Index :
        LET seq == [t \in DOMAIN dm |-> dm[t][i]]
        IN  \E t1, t2 \in DOMAIN dm :
                (seq[t1] - seq[t2]) * OscThreshDen > OscThreshNum * TrajDen}

\* C7: with fewer than two nodes of amplitude above 0.5, _core_oscillators
\* returns an empty oscillator set and an empty anti-correlation map.
C7_FewCandidatesEmpty ==
    (pc \in {"detected", "raised"} /\ Cardinality(AboveThreshold(difmats)) < 2) =>
        pc = "detected" /\ core = <<>> /\ anti = <<>>

\* no node above the threshold, though some node swings by exactly 0.5
C7_Witness ==
    /\ pc = "detected"
    /\ AboveThreshold(difmats) = {}
    /\ \E i \in Index : difmats[1][i] # difmats[2][i]
    /\ core = <<>> /\ anti = <<>>

\* C8 (as claimed): with exactly one node of amplitude above 0.5, that node
\* is in the returned oscillator set and the anti-correlation map is empty.
C8_SingleCandidateReturned ==
    (pc = "detected" /\ Cardinality(AboveThreshold(difmats)) = 1) =>
        /\ \A i \in AboveThreshold(difmats) : rev_index[i] \in Elements(core)
        /\ anti = <<>>

\* C8 (amended): with exactly one node of amplitude above 0.5, that node is
\* the one candidate the detector reports, and both the returned oscillator
\* set and the anti-correlation map are empty.
C8_SingleCandidateOnlyReported ==
    (pc \in {"detected", "raised"} /\ Cardinality(AboveThreshold(difmats)) = 1) =>
        /\ pc = "detected"
        /\ Elements(oscillators) = {rev_index[i] : i \in AboveThreshold(difmats)}
        /\ core = <<>>
        /\ anti = <<>>

C8_Witness ==
    /\ pc = "detected"
    /\ Cardinality(AboveThreshold(difmats)) = 1
    /\ Len(oscillators) = 1
    /\ core = <<>>

\* every sequence of distinct nodes
NodeSequences == UNION {Orderings(S) : S \in (SUBSET Nodes) \ {{}}}

IsPath(W, path) ==
    \A i \in 1 .. (Len(path) - 1) :
        LET u == path[i]
            v == path[i + 1]
        IN  IF u < v THEN <<u, v>> \in Edges(W) ELSE <<v, u>> \in Edges(W)

\* the paths from x to t with the fewest edges
Geodesics(W, x, t) ==
    LET joining == {path \in NodeSequences :
                       path[1] = x /\ path[Len(path)] = t /\ IsPath(W, path)}
    IN  {path \in joining : \A other \in joining : Len(path) <= Len(other)}

\* res(x, t): the mean over the geodesics of the product of the edge weights,
\* each divided by the largest weight; -1 where there is no path.  As
\* <<numerator, denominator>> with a positive denominator.
Res(W, x, t) ==
    LET geo == Geodesics(W, x, t)
    IN  IF geo = {} THEN <<-1, 1>>
        ELSE LET top   == CHOOSE w \in {W[p] : p \in Edges(W)} : \A p \in Edges(W) : W[p] <= w
                 hops  == Len(CHOOSE path \in geo : TRUE) - 1
                 prod[path \in geo] ==
                     LET upto[i \in 1 .. Len(path)] ==
                             IF i = 1 THEN 1 ELSE upto[i - 1] * Wt(W, path[i - 1], path[i])
                     IN  upto[Len(path)]
                 scale == Cardinality(geo) * Pow(top, hops)
             IN  IF scale > 0 THEN <<SumFn(prod, geo), scale>>
                 ELSE <<-SumFn(prod, geo), -scale>>

ClusterOf(t) == bestcluster[t - 1]
HasOscillator(c) == \E i \in DOMAIN core : ClusterOf(core[i]) = c
\* the oscillator of cluster c: of several, the one the set iterates last
TheOscillator(c) == core[Max({i \in DOMAIN core : ClusterOf(core[i]) = c})]

\* conditions (a), (b), (c) for node t, given res as a table
ConditionA(res, t) ==
    /\ ClusterOf(t) \in DOMAIN anti
    /\ HasOscillator(anti[ClusterOf(t)])
    /\ LET own   == res[TheOscillator(ClusterOf(t))][t]
           other == res[TheOscillator(anti[ClusterOf(t)])][t]
       IN  \/ own[1] < 0 /\ other[1] < 0
           \/ own[1] > 0 /\ other[1] > 0
           \/ other[1] = 0
ConditionB(res, t) == res[TheOscillator(ClusterOf(t))][t][1] < 0
ConditionC(res, t) ==
    LET own == res[TheOscillator(ClusterOf(t))][t]
    IN  Abs(own[1]) * edgescale[2] < edgescale[1] * own[2]

\* C10: _oscillator_paths returns exactly the index positions of the nodes
\* whose cluster has an oscillator and for which (a), (b) or (c) holds; a node
\* whose cluster has no oscillator is never flagged, and a node with no path
\* to its own cluster's oscillator always is.
C10_FlaggedExactly ==
    pc = "scanned" =>
        LET res == [x \in Elements(core) |-> [t \in Nodes |-> Res(graph, x, t)]]
        IN  /\ Elements(remove_cluster) =
                  {t - 1 : t \in {u \in Nodes :
                                    /\ HasOscillator(ClusterOf(u))
                                    /\ \/ ConditionA(res, u)
                                       \/ ConditionB(res, u)
                                       \/ ConditionC(res, u)}}
            /\ \A t \in Nodes :
                  ~HasOscillator(ClusterOf(t)) => (t - 1) \notin Elements(remove_cluster)
            /\ \A t \in Nodes :
                  (HasOscillator(ClusterOf(t))
                     /\ Geodesics(graph, TheOscillator(ClusterOf(t)), t) = {})
                  => (t - 1) \in Elements(remove_cluster)

\* a scan that flags a node two shortest paths lead to and leaves another
\* node, whose cluster has an oscillator too, unflagged
C10_Witness ==
    /\ pc = "scanned"
    /\ \E t \in Nodes :
          /\ HasOscillator(ClusterOf(t))
          /\ Cardinality(Geodesics(graph, TheOscillator(ClusterOf(t)), t)) = 2
          /\ (t - 1) \in Elements(remove_cluster)
    /\ \E t \in Nodes :
          /\ HasOscillator(ClusterOf(t))
          /\ (t - 1) \notin Elements(remove_cluster)

---------------------------------------------------------------------------
(* Claims about the whole run, checked under Spec                          *)

\* the search has made its final k-means call and its scores are still at hand
FinalRunMade ==
    /\ IsKMeans(cluster)
    /\ pc \in {"hard_done", "raised"}
    /\ Len(scores) = max_clusters - min_clusters + 2
    /\ Len(kmeans_runs) = max_clusters - min_clusters + 2

NoCandidateBeatsBaseline == \A i \in 2 .. Len(scores) : scores[i] <= scores[1]

FinalK == kmeans_runs[Len(kmeans_runs)]

\* C2: with the supported algorithm, when no k-means candidate scores
\* strictly higher than the random baseline the search warns and makes its
\* final k-means run with k = min_clusters; the k of the final run always
\* lies in min_clusters .. max_clusters.
C2_FallsBackToMinimum ==
    FinalRunMade =>
        /\ FinalK \in min_clusters .. max_clusters
        /\ NoCandidateBeatsBaseline =>
               (warning = "random_best" /\ FinalK = min_clusters)

\* C4: with an algorithm name other than 'KMeans' no k-means run is made,
\* no assignment vector is returned, the call ends in an error, and no
\* cluster attribute is written to the graph.
C4_UnsupportedAlgorithm ==
    cluster # "KMeans" =>
        /\ kmeans_runs = <<>>
        /\ IsNone(kmeans_labels)
        /\ IsNone(bestcluster)
        /\ IsNone(cluster_attr)
        /\ pc \in {"start", "hard", "unsupported", "raised"}
        /\ pc = "raised" => raised \in {"TypeError", "ZeroDivisionError"}

C4_Witness ==
    /\ cluster # "KMeans"
    /\ pc = "raised"
    /\ raised = "TypeError"
    /\ warning = "unsupported"
    /\ NumEdges(graph) > 0

\* C5: in a completed run, label 0 is written to a node only if memory was
\* signalled, fuzzy is enabled and the validator confirmed the node; with
\* memory false or fuzzy false every written label is at least 1 and is
\* the k-means label plus one at the node's index position.
C5_ZeroOnlyForConfirmed ==
    pc = "done" =>
        \A n \in Nodes :
            /\ cluster_attr[n] = 0 =>
                   /\ memory
                   /\ fuzzy
                   /\ adj_index[n] \in Elements(updated_removals)
            /\ (~memory \/ ~fuzzy) =>
                   /\ cluster_attr[n] >= 1
                   /\ cluster_attr[n] = kmeans_labels[adj_index[n]] + 1

\* a completed fuzzy run that wrote label 0 to one node and an ordinary
\* label to another
C5_Witness ==
    /\ pc = "done"
    /\ memory
    /\ fuzzy
    /\ \E n \in Nodes : cluster_attr[n] = 0
    /\ \E n \in Nodes : cluster_attr[n] >= 1

---------------------------------------------------------------------------
(* A claim about _core_oscillators' anti-correlation map, checked under    *)
(* SpecOsc                                                                 *)

\* C11: for every trajectory and assignment, the anti-correlation map
\* returned by _core_oscillators never maps a cluster label to itself: the
\* value of every key is a different cluster label.
C11_NoSelfAntiCorrelation ==
    pc = "detected" => \A c \in DOMAIN anti : anti[c] # c

=============================================================================
